---- MODULE Spec2Model ----
(***************************************************************************)
(* LRUReplacer of rmdb (src/rmdb/src/replacer/lru_replacer.cpp).           *)
(*                                                                         *)
(* State: the recency list LRUlist_ (std::list<frame_id_t>, head = most    *)
(* recently unpinned, tail = next victim), the presence index LRUhash_     *)
(* (frame id -> list iterator), the capacity max_size_ and the mutex       *)
(* latch_.  Each thread runs victim / pin / unpin / Size one source line   *)
(* at a time; the label of a step is the source line it executes.          *)
(***************************************************************************)
EXTENDS Integers, Sequences, FiniteSets

\* ---------------------------------------------------------------- bounds
NumThreads == 2
MaxCapacity == 2
MaxCalls == 4

Frames == 0..MaxCapacity        \* identifiers callers pass; MaxCapacity itself
                                \* is outside every pool range [0, max_size_)
NoFrame == -1                   \* "no identifier": an unused argument slot
NoThread == 0                   \* latch_ not held
NoNode == [val |-> NoFrame, gen |-> 0]  \* pin holds no iterator payload
Unbounded == -1                 \* budget of a run whose calls are not logged
PriorOut == {NoFrame, 0}        \* what the caller's variable may hold before victim

VARIABLES
    max_size_,   \* capacity given to the constructor
    LRUlist_,    \* sequence of list nodes [val, gen], head first
    LRUhash_,    \* function: tracked frame id -> node (the stored iterator)
    latch_,      \* NoThread, or the thread holding the mutex
    pc,          \* per thread: "idle", "lock", a line label, or "crash"
    op,          \* per thread: the operation in progress
    arg,         \* per thread: the frame_id argument of pin / unpin
    out,         \* per thread: the caller's variable victim's pointer names
    it,          \* per thread: pin's iterator payload (it->second), or NoNode
    walk,        \* per thread in Size: the node the count has come to, the
                 \* count so far, and the loads made in freed memory in a row
    snap,        \* per thread: list, index and out when it took the latch
    inv,         \* per thread: number of logged calls when it was invoked
    watch,       \* the identifier whose victims are being followed
    mark,        \* per thread in victim: "clear", or a victim call overlapping
                 \* it returned watch ("taken") and unpin inserted watch again
                 \* since ("retaken")
    clash,       \* mark of the victim call that returned watch in the step
                 \* just taken, "none" after any other step
    hist,        \* log of completed calls, in order of completion
    budget,      \* calls that may still be invoked, or Unbounded
    lead         \* calls still to come that the caller makes as unpins,
                 \* before it makes any other call

vars == <<max_size_, LRUlist_, LRUhash_, latch_, pc, op, arg, out, it, walk,
          snap, inv, watch, mark, clash, hist, budget, lead>>

Threads == DOMAIN pc

\* ------------------------------------------------------- std::list helpers
\* A list node is named [val, gen]: the identifier it holds and a generation
\* number that tells apart live nodes holding the same identifier.  A list
\* iterator is the name of the node it points to.
ListSet(l) == {l[i].val : i \in 1..Len(l)}
ListNodes(l) == {l[i] : i \in 1..Len(l)}
Back(l) == l[Len(l)].val
PopBack(l) == SubSeq(l, 1, Len(l) - 1)
\* operator new: a node that is not one of the live nodes
NewNode(l, f) ==
    LET used == {n.gen : n \in {m \in ListNodes(l) : m.val = f}}
        g == CHOOSE k \in 0..Len(l) :
                /\ k \notin used
                /\ \A j \in 0..(k - 1) : j \in used
    IN [val |-> f, gen |-> g]
\* (variant: push_back instead of push_front)
PushBack(l, f) == l \o <<NewNode(l, f)>>
PushFront(l, f) == <<NewNode(l, f)>> \o l
Begin(l) == l[1]
EraseNode(l, n) == SelectSeq(l, LAMBDA e : e # n)

\* ------------------------------------------------- std::unordered_map helpers
HashErase(h, k) == [x \in (DOMAIN h) \ {k} |-> h[x]]
HashPut(h, k, n) == [x \in (DOMAIN h) \cup {k} |-> IF x = k THEN n ELSE h[x]]
EmptyHash == [x \in {} |-> NoNode]

NoSnap == [list |-> <<>>, hash |-> EmptyHash, out |-> NoFrame]
NoWalk == [cur |-> NoNode, n |-> 0, f |-> 0]

\* The nodes that Size calls in progress have come to.  A node that has been
\* erased from the list is freed memory; the Size calls left pointing to it
\* are given a name [NoFrame, k], k >= 1, that tells freed nodes apart.
Cursors == {walk[u].cur : u \in Threads}
Freed == {c \in Cursors : c.val = NoFrame /\ c.gen >= 1}
FreedNode ==
    [val |-> NoFrame,
     gen |-> CHOOSE k \in 1..(Cardinality(Threads) + 1) :
                /\ \A c \in Freed : c.gen # k
                /\ \A j \in 1..(k - 1) : \E c \in Freed : c.gen = j]
\* A freed node no other Size call has come to.
OtherFreed(t) ==
    IF \E u \in Threads : u # t /\ walk[u].cur = walk[t].cur
    THEN {FreedNode} ELSE {}
\* The calls made so far, and the nodes they can have freed: victim frees a
\* map node and a list node (lines 42, 44), and so does pin (lines 59, 60).
Invoked == Len(hist) + Cardinality({u \in Threads : pc[u] # "idle"})
FreedChunks == 2 * Invoked
\* walk of thread u once the list has become l2
Strand(u, l2) ==
    IF walk[u].cur \in ListNodes(LRUlist_) \ ListNodes(l2)
    THEN [walk[u] EXCEPT !.cur = FreedNode]
    ELSE walk[u]

\* ------------------------------------------------------------ construction
\* LRUReplacer::LRUReplacer(num_pages): empty list and index, latch free.
InitFor(C, n, b, W, k) ==
    /\ max_size_ \in C
    /\ LRUlist_ = <<>>
    /\ LRUhash_ = EmptyHash
    /\ latch_ = NoThread
    /\ pc = [t \in 1..n |-> "idle"]
    /\ op = [t \in 1..n |-> "none"]
    /\ arg = [t \in 1..n |-> NoFrame]
    /\ out = [t \in 1..n |-> NoFrame]
    /\ it = [t \in 1..n |-> NoNode]
    /\ walk = [t \in 1..n |-> NoWalk]
    /\ snap = [t \in 1..n |-> NoSnap]
    /\ inv = [t \in 1..n |-> 0]
    /\ watch \in W
    /\ mark = [t \in 1..n |-> "clear"]
    /\ clash = "none"
    /\ hist = <<>>
    /\ budget = b
    /\ lead = k

\* A pool of at most MaxCapacity frames whose callers begin with any call.
InitWith(n, b, W) == InitFor(1..MaxCapacity, n, b, W, 0)

\* A fault (SIGSEGV, a sanitizer's abort) in one thread ends the process: once
\* a thread has stopped at "crash", no thread executes anything more.
Running == \A u \in Threads : pc[u] # "crash"

\* --------------------------------------------------------------- calling
\* A thread of the buffer pool manager enters one of the four operations:
\* o with argument f, the caller's variable holding o0.
Call(t, o, f, o0) ==
    /\ pc[t] = "idle"
    /\ Running
    /\ budget # 0
    /\ lead > 0 => o = "unpin"
    /\ budget' = IF budget = Unbounded THEN Unbounded ELSE budget - 1
    /\ lead' = IF lead > 0 THEN lead - 1 ELSE 0
    /\ pc' = [pc EXCEPT ![t] = IF o = "Size" THEN "s86" ELSE "lock"]
    /\ op' = [op EXCEPT ![t] = o]
    /\ arg' = [arg EXCEPT ![t] = f]
    /\ out' = [out EXCEPT ![t] = o0]
    /\ inv' = [inv EXCEPT ![t] = Len(hist)]
    /\ snap' = IF o = "Size" /\ budget # Unbounded
               THEN [snap EXCEPT ![t] = [list |-> LRUlist_, hash |-> LRUhash_,
                                         out |-> o0]]
               ELSE snap
    /\ clash' = "none"
    /\ UNCHANGED <<max_size_, LRUlist_, LRUhash_, latch_, it, walk, watch,
                   mark, hist>>

CallVictim(t) == \E o0 \in PriorOut : Call(t, "victim", NoFrame, o0)
CallPin(t) == \E f \in Frames : Call(t, "pin", f, NoFrame)
CallUnpin(t) == \E f \in Frames : Call(t, "unpin", f, NoFrame)
CallSize(t) == Call(t, "Size", NoFrame, NoFrame)

\* std::lock_guard<std::mutex> guard{latch_}: blocks until the latch is free.
FirstLine(o) == CASE o = "victim" -> "v37"
                  [] o = "pin" -> "p57"
                  [] o = "unpin" -> "u73"
\* (variant: the guard is taken without waiting for the latch to be free)
Lock_free(t) ==
    /\ pc[t] = "lock"
    /\ Running
    /\ latch_' = t
    /\ pc' = [pc EXCEPT ![t] = FirstLine(op[t])]
    /\ snap' = [snap EXCEPT ![t] =
                  [list |-> LRUlist_, hash |-> LRUhash_, out |-> out[t]]]
    /\ clash' = "none"
    /\ UNCHANGED <<max_size_, LRUlist_, LRUhash_, op, arg, out, it, inv,
                   watch, mark, hist, budget, lead, walk>>

Lock(t) ==
    /\ pc[t] = "lock"
    /\ Running
    /\ latch_ = NoThread
    /\ latch_' = t
    /\ pc' = [pc EXCEPT ![t] = FirstLine(op[t])]
    /\ snap' = [snap EXCEPT ![t] =
                  [list |-> LRUlist_, hash |-> LRUhash_, out |-> out[t]]]
    /\ clash' = "none"
    /\ UNCHANGED <<max_size_, LRUlist_, LRUhash_, op, arg, out, it, inv,
                   watch, mark, hist, budget, lead, walk>>

\* ------------------------------------------------------------- returning
\* What is kept of a call of thread t that returns r (n for Size): the list,
\* the index and the caller's variable as the call found them (pre, out0) and
\* as it leaves them (post, out).
Entry(t, r, n, pre, o0, l2, h2) ==
    [t |-> t, op |-> op[t], arg |-> arg[t], ret |-> r, n |-> n,
     out0 |-> o0, out |-> out[t],
     pre |-> pre, post |-> [list |-> l2, hash |-> h2],
     inv |-> inv[t]]

\* Thread t leaves its operation with result r, list l2 and index h2.
Return(t, r, n, pre, o0, l2, h2) ==
    /\ LRUlist_' = l2
    /\ LRUhash_' = h2
    /\ pc' = [pc EXCEPT ![t] = "idle"]
    /\ op' = [op EXCEPT ![t] = "none"]
    /\ arg' = [arg EXCEPT ![t] = NoFrame]
    /\ out' = [out EXCEPT ![t] = NoFrame]
    /\ it' = [it EXCEPT ![t] = NoNode]
    /\ walk' = [u \in Threads |-> IF u = t THEN NoWalk ELSE Strand(u, l2)]
    /\ snap' = [snap EXCEPT ![t] = NoSnap]
    /\ inv' = [inv EXCEPT ![t] = 0]
    /\ clash' = IF r = "true" /\ out[t] = watch THEN mark[t] ELSE "none"
    /\ mark' = [u \in Threads |->
                  IF u = t THEN "clear"
                  ELSE IF r = "true" /\ out[t] = watch /\ op[u] = "victim"
                       THEN "taken" ELSE mark[u]]
    /\ hist' = IF budget = Unbounded THEN hist
               ELSE Append(hist, Entry(t, r, n, pre, o0, l2, h2))
    /\ UNCHANGED <<max_size_, watch, budget, lead>>

\* Return from a critical section: ~lock_guard releases latch_.
Unlock(t, r, l2, h2) ==
    /\ latch_' = NoThread
    /\ Return(t, r, 0, [list |-> snap[t].list, hash |-> snap[t].hash],
              snap[t].out, l2, h2)

\* One line of a critical section that does not return: it leaves list l2,
\* index h2 and iterator n2 and goes on at label.  (What it means for mark and
\* walk is said by the line itself.)
Goto(t, label, l2, h2, n2) ==
    /\ LRUlist_' = l2
    /\ LRUhash_' = h2
    /\ pc' = [pc EXCEPT ![t] = label]
    /\ it' = [it EXCEPT ![t] = n2]
    /\ clash' = "none"
    /\ UNCHANGED <<max_size_, latch_, op, arg, out, snap, inv, watch, hist,
                   budget, lead>>

\* ---------------------------------------------------------------- victim
\* (variant: no early return; an invalid identifier is stored and the call
\* falls through to line 42)
VictimEmpty_store(t) ==
    /\ pc[t] = "v37"
    /\ Running
    /\ Len(LRUlist_) = 0
    /\ out' = [out EXCEPT ![t] = NoFrame]
    /\ pc' = [pc EXCEPT ![t] = "v42"]
    /\ clash' = "none"
    /\ UNCHANGED <<max_size_, LRUlist_, LRUhash_, latch_, op, arg, it, snap,
                   inv, watch, mark, hist, budget, lead, walk>>

\* lines 37-40: empty list; only the local pointer is set to nullptr, the
\* caller's variable is not written.
VictimEmpty(t) ==
    /\ pc[t] = "v37"
    /\ Running
    /\ Len(LRUlist_) = 0
    /\ Unlock(t, "false", LRUlist_, LRUhash_)

\* (variant: the head of the list is read)
VictimRead_front(t) ==
    /\ pc[t] = "v37"
    /\ Running
    /\ Len(LRUlist_) > 0
    /\ out' = [out EXCEPT ![t] = Begin(LRUlist_).val]
    /\ pc' = [pc EXCEPT ![t] = "v42"]
    /\ clash' = "none"
    /\ UNCHANGED <<max_size_, LRUlist_, LRUhash_, latch_, op, arg, it, snap,
                   inv, watch, mark, hist, budget, lead, walk>>

\* lines 37, 41: *frame_id = LRUlist_.back()
VictimRead(t) ==
    /\ pc[t] = "v37"
    /\ Running
    /\ Len(LRUlist_) > 0
    /\ out' = [out EXCEPT ![t] = Back(LRUlist_)]
    /\ pc' = [pc EXCEPT ![t] = "v42"]
    /\ clash' = "none"
    /\ UNCHANGED <<max_size_, LRUlist_, LRUhash_, latch_, op, arg, it, snap,
                   inv, watch, mark, hist, budget, lead, walk>>

\* (variant: the tail is selected and returned without being removed)
VictimErase_select(t) ==
    /\ pc[t] = "v42"
    /\ Running
    /\ IF out[t] \in DOMAIN LRUhash_
       THEN Unlock(t, "true", LRUlist_, LRUhash_)
       ELSE Unlock(t, "false", LRUlist_, LRUhash_)

\* lines 42-43: if(!LRUhash_.erase(*frame_id)) return false
VictimErase(t) ==
    /\ pc[t] = "v42"
    /\ Running
    /\ IF out[t] \in DOMAIN LRUhash_
       THEN /\ Goto(t, "v44", LRUlist_, HashErase(LRUhash_, out[t]), it[t])
            /\ UNCHANGED <<mark, walk>>
       ELSE Unlock(t, "false", LRUlist_, LRUhash_)

\* (variant: the entry dropped from the list is the one at the head)
VictimPop_front(t) ==
    /\ pc[t] = "v44"
    /\ Running
    /\ Unlock(t, "true", Tail(LRUlist_), LRUhash_)

\* (variant: the tail entry stays in the list)
VictimPop_none(t) ==
    /\ pc[t] = "v44"
    /\ Running
    /\ Unlock(t, "true", LRUlist_, LRUhash_)

\* lines 44-45: LRUlist_.pop_back(); return true
VictimPop(t) ==
    /\ pc[t] = "v44"
    /\ Running
    /\ Unlock(t, "true", PopBack(LRUlist_), LRUhash_)

\* ------------------------------------------------------------------- pin
\* (variant: the lookup never finds the identifier)
PinFind_miss(t) ==
    /\ pc[t] = "p57"
    /\ Running
    /\ Unlock(t, "void", LRUlist_, LRUhash_)

\* lines 57-58: it = LRUhash_.find(frame_id); not found: return
PinFind(t) ==
    /\ pc[t] = "p57"
    /\ Running
    /\ IF arg[t] \in DOMAIN LRUhash_
       THEN /\ Goto(t, "p59", LRUlist_, LRUhash_, NoNode)
            /\ UNCHANGED <<mark, walk>>
       ELSE Unlock(t, "void", LRUlist_, LRUhash_)

\* line 59: LRUhash_.erase(it->first) frees the map node `it` points to; what
\* the freed node still holds of it->second is kept in it[t].
PinEraseHash(t) ==
    /\ pc[t] = "p59"
    /\ Running
    /\ Goto(t, "p60", LRUlist_, HashErase(LRUhash_, arg[t]), LRUhash_[arg[t]])
    /\ UNCHANGED <<mark, walk>>

\* (variant: line 60 missing, the list node stays)
PinEraseList_skip(t) ==
    /\ pc[t] = "p60"
    /\ Running
    /\ it[t] \in ListNodes(LRUlist_)
    /\ Unlock(t, "void", LRUlist_, LRUhash_)

\* line 60: LRUlist_.erase(it->second) reads the freed map node.  When the
\* freed memory is still intact the list node of frame_id is erased ...
PinEraseList(t) ==
    /\ pc[t] = "p60"
    /\ Running
    /\ it[t] \in ListNodes(LRUlist_)
    /\ Unlock(t, "void", EraseNode(LRUlist_, it[t]), LRUhash_)

\* ... and when it is not (a poisoning or checking allocator, a sanitizer)
\* the use after free ends the process inside the critical section.
PinUseAfterFree(t) ==
    /\ pc[t] = "p60"
    /\ Running
    /\ pc' = [pc EXCEPT ![t] = "crash"]
    /\ clash' = "none"
    /\ UNCHANGED <<max_size_, LRUlist_, LRUhash_, latch_, op, arg, out, it,
                   snap, inv, watch, mark, hist, budget, lead, walk>>

\* ----------------------------------------------------------------- unpin
\* (variant: > instead of >=)
UnpinFull_gt(t) ==
    /\ pc[t] = "u73"
    /\ Running
    /\ IF Len(LRUlist_) > max_size_
       THEN Unlock(t, "void", LRUlist_, LRUhash_)
       ELSE /\ Goto(t, "u75", LRUlist_, LRUhash_, it[t])
            /\ UNCHANGED <<mark, walk>>

\* (variant: on a full list the tail is dropped to make room)
UnpinFull_evict(t) ==
    /\ pc[t] = "u73"
    /\ Running
    /\ IF Len(LRUlist_) >= max_size_
       THEN Goto(t, "u75", PopBack(LRUlist_),
                 HashErase(LRUhash_, Back(LRUlist_)), it[t])
       ELSE Goto(t, "u75", LRUlist_, LRUhash_, it[t])
    /\ UNCHANGED <<mark, walk>>

\* lines 73-74: if(LRUlist_.size() >= max_size_) return
UnpinFull(t) ==
    /\ pc[t] = "u73"
    /\ Running
    /\ IF Len(LRUlist_) >= max_size_
       THEN Unlock(t, "void", LRUlist_, LRUhash_)
       ELSE /\ Goto(t, "u75", LRUlist_, LRUhash_, it[t])
            /\ UNCHANGED <<mark, walk>>

\* (variant: the scan is missing)
UnpinScan_none(t) ==
    /\ pc[t] = "u75"
    /\ Running
    /\ Goto(t, "u79", LRUlist_, LRUhash_, it[t])
    /\ UNCHANGED <<mark, walk>>

\* (variant: != instead of == in the scan)
UnpinScan_neq(t) ==
    /\ pc[t] = "u75"
    /\ Running
    /\ IF \E f \in ListSet(LRUlist_) : f # arg[t]
       THEN Unlock(t, "void", LRUlist_, LRUhash_)
       ELSE /\ Goto(t, "u79", LRUlist_, LRUhash_, it[t])
            /\ UNCHANGED <<mark, walk>>

\* lines 75-78: linear scan of the list for frame_id; found: return
UnpinScan(t) ==
    /\ pc[t] = "u75"
    /\ Running
    /\ IF arg[t] \in ListSet(LRUlist_)
       THEN Unlock(t, "void", LRUlist_, LRUhash_)
       ELSE /\ Goto(t, "u79", LRUlist_, LRUhash_, it[t])
            /\ UNCHANGED <<mark, walk>>

\* line 79: LRUlist_.push_front(frame_id).  The allocator may give the new
\* node the memory of a freed node that Size calls still point to (d): those
\* calls then point to the new head.
UnpinPush(t) ==
    /\ pc[t] = "u79"
    /\ Running
    /\ Goto(t, "u80", PushFront(LRUlist_, arg[t]), LRUhash_, it[t])
    /\ mark' = [u \in Threads |->
                  IF arg[t] = watch /\ mark[u] = "taken" THEN "retaken"
                  ELSE mark[u]]
    /\ \E d \in {NoNode} \cup Freed :
          walk' = [u \in Threads |->
                     IF d # NoNode /\ walk[u].cur = d
                     THEN [walk[u] EXCEPT !.cur = NewNode(LRUlist_, arg[t]),
                                          !.f = 0]
                     ELSE walk[u]]

\* (variant: the new entry is not recorded in the index)
UnpinIndex_none(t) ==
    /\ pc[t] = "u80"
    /\ Running
    /\ Unlock(t, "void", LRUlist_, LRUhash_)

\* line 80: LRUhash_[frame_id] = LRUlist_.begin()
UnpinIndex(t) ==
    /\ pc[t] = "u80"
    /\ Running
    /\ Unlock(t, "void", LRUlist_, HashPut(LRUhash_, arg[t], Begin(LRUlist_)))

\* ------------------------------------------------------------------ Size
\* Line 86 takes no latch.  Where size() is a stored counter it is one load;
\* where size() counts the nodes (libstdc++ with the old list ABI) it loads
\* the head pointer and then the next pointer of one node after another,
\* while other threads go on.

\* line 86, first load: the stored counter, or the head pointer
SizeBegin(t) ==
    /\ pc[t] = "s86"
    /\ Running
    /\ \/ /\ UNCHANGED latch_
          /\ Return(t, "size", Len(LRUlist_),
                    [list |-> snap[t].list, hash |-> snap[t].hash], NoFrame,
                    LRUlist_, LRUhash_)
       \/ /\ Len(LRUlist_) > 0
          /\ pc' = [pc EXCEPT ![t] = "s86n"]
          /\ walk' = [walk EXCEPT
                        ![t] = [cur |-> Begin(LRUlist_), n |-> 0, f |-> 0]]
          /\ clash' = "none"
          /\ UNCHANGED <<max_size_, LRUlist_, LRUhash_, latch_, op, arg, out,
                         it, snap, inv, watch, mark, hist, budget, lead>>

\* line 86, counting: ++n and the load of the next pointer of the node the
\* count has come to (the count is kept only where results are logged).  A
\* node that is still in the list leads to its successor or to end(), where n
\* is returned.  A node that was freed and not reused is memory the list no
\* longer owns, and what the load finds there is not defined by the program:
\* no valid address (the process ends inside Size), the end of the list (n is
\* returned, a node too many), a node of the list (the count goes on from
\* there), or freed memory again: the same node, the freed node another count
\* has come to, or one no count has come to.  A logged run follows a count
\* through freed memory for at most FreedChunks loads in a row.
SizeNext(t) ==
    /\ pc[t] = "s86n"
    /\ Running
    /\ LET c == walk[t].cur
           n == IF budget = Unbounded THEN 0 ELSE walk[t].n + 1
       IN IF c \in ListNodes(LRUlist_)
          THEN LET i == CHOOSE k \in 1..Len(LRUlist_) : LRUlist_[k] = c
               IN IF i = Len(LRUlist_)
                  THEN /\ UNCHANGED latch_
                       /\ Return(t, "size", n,
                                 [list |-> snap[t].list,
                                  hash |-> snap[t].hash], NoFrame,
                                 LRUlist_, LRUhash_)
                  ELSE /\ walk' = [walk EXCEPT
                                     ![t] = [cur |-> LRUlist_[i + 1],
                                             n |-> n, f |-> 0]]
                       /\ clash' = "none"
                       /\ UNCHANGED <<max_size_, LRUlist_, LRUhash_, latch_,
                                      pc, op, arg, out, it, snap, inv, watch,
                                      mark, hist, budget, lead>>
          ELSE \/ /\ pc' = [pc EXCEPT ![t] = "crash"]
                  /\ clash' = "none"
                  /\ UNCHANGED <<max_size_, LRUlist_, LRUhash_, latch_, op,
                                 arg, out, it, walk, snap, inv, watch, mark,
                                 hist, budget, lead>>
               \/ /\ UNCHANGED latch_
                  /\ Return(t, "size", n,
                            [list |-> snap[t].list, hash |-> snap[t].hash],
                            NoFrame, LRUlist_, LRUhash_)
               \/ /\ \E d \in ListNodes(LRUlist_) :
                        walk' = [walk EXCEPT
                                   ![t] = [cur |-> d, n |-> n, f |-> 0]]
                  /\ clash' = "none"
                  /\ UNCHANGED <<max_size_, LRUlist_, LRUhash_, latch_, pc,
                                 op, arg, out, it, snap, inv, watch, mark,
                                 hist, budget, lead>>
               \/ /\ walk[t].f < FreedChunks
                  /\ \E d \in Freed \cup OtherFreed(t) :
                        walk' = [walk EXCEPT
                                   ![t] = [cur |-> d, n |-> n,
                                           f |-> IF budget = Unbounded THEN 0
                                                 ELSE walk[t].f + 1]]
                  /\ clash' = "none"
                  /\ UNCHANGED <<max_size_, LRUlist_, LRUhash_, latch_, pc,
                                 op, arg, out, it, snap, inv, watch, mark,
                                 hist, budget, lead>>

\* ------------------------------------------------------------ the program
Next ==
    \/ \E t \in Threads : CallVictim(t)
    \/ \E t \in Threads : CallPin(t)
    \/ \E t \in Threads : CallUnpin(t)
    \/ \E t \in Threads : CallSize(t)
    \/ \E t \in Threads : Lock(t)
    \/ \E t \in Threads : VictimEmpty(t)
    \/ \E t \in Threads : VictimRead(t)
    \/ \E t \in Threads : VictimErase(t)
    \/ \E t \in Threads : VictimPop(t)
    \/ \E t \in Threads : PinFind(t)
    \/ \E t \in Threads : PinEraseHash(t)
    \/ \E t \in Threads : PinEraseList(t)
    \/ \E t \in Threads : PinUseAfterFree(t)
    \/ \E t \in Threads : UnpinFull(t)
    \/ \E t \in Threads : UnpinScan(t)
    \/ \E t \in Threads : UnpinPush(t)
    \/ \E t \in Threads : UnpinIndex(t)
    \/ \E t \in Threads : SizeBegin(t)
    \/ \E t \in Threads : SizeNext(t)

\* Any number of calls by NumThreads threads; nothing is logged and no
\* identifier is watched.
Init == InitWith(NumThreads, Unbounded, {NoFrame})
Spec == Init /\ [][Next]_vars

\* Two victim callers and a third party: any number of calls by three threads;
\* the watched identifier is one inside [0, max_size_) or the one that never is.
InitOverlap == InitWith(3, Unbounded, {0, MaxCapacity})
SpecOverlap == InitOverlap /\ [][Next]_vars

\* Two threads making at most three calls between them, each logged in hist
\* when it returns.
InitConc == InitWith(2, 3, {NoFrame})
SpecConc == InitConc /\ [][Next]_vars

\* One thread making at most MaxCalls calls, each logged in hist on return.
InitLog == InitWith(1, MaxCalls, {NoFrame})
SpecLog == InitLog /\ [][Next]_vars

\* One thread on a pool of MaxCapacity + 1 frames making at most seven calls,
\* each logged in hist on return; the first three are unpins, of any
\* identifiers.
InitLRU == InitFor({MaxCapacity + 1}, 1, 7, {NoFrame}, 3)
SpecLRU == InitLRU /\ [][Next]_vars

\* ===================================================================== claims
NoDup(l) == \A i, j \in 1..Len(l) : i # j => l[i].val # l[j].val
Agreement(l, h) ==
    /\ DOMAIN h = ListSet(l)
    /\ \A k \in DOMAIN h : h[k] \in ListNodes(l) /\ h[k].val = k
Vals(l) == [i \in 1..Len(l) |-> l[i].val]
Calls == 1..Len(hist)
InRange(f) == f \in 0..(max_size_ - 1)

\* C1: in every reachable state, whatever the interleaving of victim, pin,
\* unpin and Size calls and whatever identifiers they pass, the recency list
\* holds at most max_size_ frames.
C1_CapacityBound == Len(LRUlist_) <= max_size_

\* an unpin of an untracked identifier is at the capacity guard of a full list
C1_Witness ==
    /\ Len(LRUlist_) = max_size_
    /\ \E t \in Threads : pc[t] = "u73" /\ arg[t] \notin ListSet(LRUlist_)

\* C2: no identifier occurs twice in the recency list, in any state and in
\* what any call leaves; an unpin(f) that finds f evictable adds no entry, so
\* unpin(f); unpin(f) on a new replacer leaves one evictable frame.
C2_Uniqueness ==
    /\ NoDup(LRUlist_)
    /\ \A i \in Calls :
         /\ NoDup(hist[i].post.list)
         /\ (hist[i].op = "unpin" /\ hist[i].arg \in ListSet(hist[i].pre.list))
              => Len(hist[i].post.list) = Len(hist[i].pre.list)
    /\ (Len(hist) >= 2 /\ hist[1].op = "unpin" /\ hist[2].op = "unpin"
          /\ hist[1].arg = hist[2].arg)
         => Len(hist[2].post.list) = 1

\* unpin(f); unpin(f) were the first two calls
C2_Witness ==
    /\ Len(hist) >= 2
    /\ hist[1].op = "unpin" /\ hist[2].op = "unpin"
    /\ hist[1].arg = hist[2].arg
    /\ Len(LRUlist_) = 1

\* C3: whenever no thread is inside a critical section, the keys of LRUhash_
\* are exactly the identifiers in LRUlist_, and each key maps to the list
\* node holding that identifier.
C3_ListIndexAgreement == latch_ = NoThread => Agreement(LRUlist_, LRUhash_)

\* the latch is free and two frames are tracked, in list and index alike
C3_Witness ==
    /\ latch_ = NoThread
    /\ Len(LRUlist_) = 2
    /\ Agreement(LRUlist_, LRUhash_)

\* The unpins that lead the log, and the victims that follow them.
LeadingUnpins ==
    LET n == CHOOSE k \in 0..Len(hist) :
                /\ \A i \in 1..k : hist[i].op = "unpin"
                /\ k < Len(hist) => hist[k + 1].op # "unpin"
    IN n
UnpinsThenVictims ==
    /\ LeadingUnpins >= 1
    /\ \A i \in (LeadingUnpins + 1)..Len(hist) : hist[i].op = "victim"

\* C4 as stated: after unpin(u1), ..., unpin(un) the k-th of the following
\* victim calls returns uk.
C4_Original ==
    UnpinsThenVictims =>
       \A k \in 1..(Len(hist) - LeadingUnpins) :
          k <= LeadingUnpins =>
             /\ hist[LeadingUnpins + k].ret = "true"
             /\ hist[LeadingUnpins + k].out = hist[k].arg

\* The unpins among u1..un that take effect on a new replacer of capacity c:
\* the first occurrence of each identifier, as long as fewer than c are held.
RECURSIVE Effective(_, _, _)
Effective(k, acc, c) ==
    IF k > LeadingUnpins THEN acc
    ELSE IF Len(acc) < c /\ \A i \in 1..Len(acc) : acc[i] # hist[k].arg
         THEN Effective(k + 1, Append(acc, hist[k].arg), c)
         ELSE Effective(k + 1, acc, c)

\* C4 (amended): after unpin(u1), ..., unpin(un) on a new replacer, with
\* no pin in between, the following victim calls return, oldest first, the
\* identifiers of the unpins that took effect (the first occurrence of each
\* identifier, at most max_size_ of them), and "not found" after them; for
\* distinct u1..un with n <= max_size_ these are u1, ..., un in that order.
C4_LRUOrder ==
    UnpinsThenVictims =>
       LET e == Effective(1, <<>>, max_size_)
       IN \A k \in 1..(Len(hist) - LeadingUnpins) :
             IF k <= Len(e)
             THEN /\ hist[LeadingUnpins + k].ret = "true"
                  /\ hist[LeadingUnpins + k].out = e[k]
             ELSE hist[LeadingUnpins + k].ret = "false"

\* two unpins of different identifiers were followed by two victims
C4_Witness ==
    /\ Len(hist) = 4
    /\ UnpinsThenVictims
    /\ LeadingUnpins = 2
    /\ hist[1].arg # hist[2].arg
    /\ hist[4].ret = "true"

\* C5: after a completed pin(f), a victim call returns f only if an
\* unpin(f) was executed in between.
C5_PinRemovesEligibility ==
    \A i \in Calls : \A j \in Calls :
       (/\ i < j
        /\ hist[i].op = "pin"
        /\ hist[j].op = "victim"
        /\ hist[j].ret = "true"
        /\ hist[j].out = hist[i].arg)
       => \E k \in (i + 1)..(j - 1) :
             hist[k].op = "unpin" /\ hist[k].arg = hist[i].arg

\* pin(f) removed an evictable f and a later victim found another frame
C5_Witness ==
    \E i \in Calls : \E j \in Calls :
       /\ i < j
       /\ hist[i].op = "pin"
       /\ hist[i].arg \in ListSet(hist[i].pre.list)
       /\ hist[j].op = "victim"
       /\ hist[j].ret = "true"

\* C6 as stated: a victim call never returns an identifier that a victim
\* call overlapping it has returned.
C6_Original == clash \notin {"taken", "retaken"}

\* C6 (amended): two overlapping victim calls return the same identifier
\* only if an unpin inserted that identifier again after the first of them
\* removed it.
C6_VictimsDistinct == clash # "taken"

\* a victim returned the identifier an overlapping victim had returned, after
\* an unpin had inserted it again
C6_Witness == clash = "retaken"

\* Labels at which the next step reads or writes LRUlist_ or LRUhash_, and
\* those at which it writes one of them.
AccessLabels == {"v37", "v42", "v44", "p57", "p59", "p60",
                 "u73", "u75", "u79", "u80", "s86", "s86n"}
WriteLabels == {"v42", "v44", "p59", "p60", "u79", "u80"}

\* C7 as stated: no operation is about to read or write LRUlist_ or
\* LRUhash_ while another thread holds latch_ and is about to write them.
C7_AllUnderLatch ==
    \A t \in Threads : \A u \in Threads \ {t} :
       ~(pc[t] \in AccessLabels /\ latch_ = u /\ pc[u] \in WriteLabels)

\* C8: a victim call that finds no evictable frame (the first call on a new
\* replacer included) returns false and leaves list, index and the caller's
\* variable as they were.
C8_EmptyVictim ==
    \A i \in Calls :
       (hist[i].op = "victim" /\ Len(hist[i].pre.list) = 0) =>
          /\ hist[i].ret = "false"
          /\ hist[i].post = hist[i].pre
          /\ hist[i].out = hist[i].out0

\* victim found the list empty, on a new replacer and after it was drained,
\* with the caller's variable holding an identifier
C8_Witness ==
    /\ Len(hist) >= 3
    /\ hist[1].op = "victim" /\ hist[1].out0 = 0
    /\ \E i \in 2..Len(hist) :
          /\ hist[i].op = "victim" /\ hist[i].ret = "false"
          /\ \E j \in 1..(i - 1) : hist[j].op = "victim" /\ hist[j].ret = "true"

\* C9: a pin(f) right after a pin(f), and an unpin(f) right after an
\* unpin(f), changes neither the list (content and order) nor the index.
C9_Idempotence ==
    \A i \in Calls :
       (/\ i < Len(hist)
        /\ hist[i].op \in {"pin", "unpin"}
        /\ hist[i + 1].op = hist[i].op
        /\ hist[i + 1].arg = hist[i].arg)
       => /\ hist[i + 1].pre = hist[i].post
          /\ hist[i + 1].post = hist[i].post

\* both pairs occurred, each first call having changed the list
C9_Witness ==
    /\ Len(hist) = 4
    /\ hist[1].op = "unpin" /\ hist[2].op = "unpin"
    /\ hist[1].arg = hist[2].arg
    /\ hist[3].op = "pin" /\ hist[4].op = "pin"
    /\ hist[3].arg = hist[1].arg /\ hist[4].arg = hist[1].arg
    /\ hist[1].post # hist[1].pre
    /\ hist[3].post # hist[3].pre

\* C10: pin and unpin are total and treat identifiers outside the frame range
\* as no-ops: a pin(f) or unpin(f) with f outside [0, max_size_) never fails,
\* and leaves list and index as it found them.
C10_TotalNoOps ==
    /\ \A t \in Threads :
         (op[t] \in {"pin", "unpin"} /\ ~InRange(arg[t])) => pc[t] # "crash"
    /\ \A i \in Calls :
         (hist[i].op \in {"pin", "unpin"} /\ ~InRange(hist[i].arg)) =>
            hist[i].post = hist[i].pre

\* C11: a victim call made while at least one frame is evictable returns true
\* with the identifier at the tail of the list, removes that identifier and no
\* other from list and index, so that Size falls by one, and leaves every
\* other evictable frame tracked in the same relative order.
C11_VictimSelection ==
    \A i \in Calls :
       (hist[i].op = "victim" /\ Len(hist[i].pre.list) >= 1) =>
          LET l == hist[i].pre.list
              f == l[Len(l)].val
          IN /\ hist[i].ret = "true"
             /\ hist[i].out = f
             /\ hist[i].post.list = SubSeq(l, 1, Len(l) - 1)
             /\ Len(hist[i].post.list) = Len(l) - 1
             /\ DOMAIN hist[i].post.hash = (DOMAIN hist[i].pre.hash) \ {f}
             /\ \A k \in DOMAIN hist[i].post.hash :
                   hist[i].post.hash[k] = hist[i].pre.hash[k]

\* a victim call has returned after finding two evictable frames
C11_Witness ==
    \E i \in Calls :
       /\ hist[i].op = "victim"
       /\ Len(hist[i].pre.list) = 2
       /\ hist[i].ret = "true"
       /\ Len(hist[i].post.list) = 1

\* The lengths the list is logged to have had between the invocation and the
\* return of Size call i: at its invocation, at its return, and before and
\* after every call that returned in between.
LengthsDuring(i) ==
    {Len(hist[i].pre.list), Len(hist[i].post.list)}
       \cup {Len(hist[k].pre.list) : k \in (hist[i].inv + 1)..(i - 1)}
       \cup {Len(hist[k].post.list) : k \in (hist[i].inv + 1)..(i - 1)}

\* No other call was in progress at any time between the invocation and the
\* return of call i.
Alone(i) ==
    /\ \A k \in Calls \ {i} : k <= hist[i].inv \/ hist[k].inv >= i
    /\ \A u \in Threads : pc[u] # "idle" => inv[u] >= i

\* C12: Size changes neither list nor index and returns a consistent
\* snapshot: also when victim, pin or unpin run on other threads meanwhile, a
\* Size call comes to its return, and the value it returns is the number of
\* evictable frames at some instant between its invocation and its return.
C12_SizeSnapshot ==
    /\ \A i \in Calls :
         hist[i].op = "Size" =>
            /\ Alone(i) => hist[i].post = hist[i].pre
            /\ hist[i].n \in LengthsDuring(i)
    /\ \A t \in Threads : op[t] = "Size" => pc[t] \in {"s86", "s86n"}

\* The atomic LRU model: a sequence of identifiers without duplicates, most
\* recently unpinned first, at most max_size_ long, on which every operation
\* acts in one step.
AtomicUnpin(s, f) ==
    IF Len(s) >= max_size_ \/ (\E k \in 1..Len(s) : s[k] = f)
    THEN s ELSE <<f>> \o s
AtomicPin(s, f) == SelectSeq(s, LAMBDA x : x # f)
AtomicVictim(s) == IF s = <<>> THEN s ELSE SubSeq(s, 1, Len(s) - 1)

\* The state of the atomic model after the first k logged calls, taken in the
\* order in which they returned.
RECURSIVE AtomicAfter(_)
AtomicAfter(k) ==
    IF k = 0 THEN <<>>
    ELSE LET s == AtomicAfter(k - 1)
             e == hist[k]
         IN CASE e.op = "unpin" -> AtomicUnpin(s, e.arg)
              [] e.op = "pin" -> AtomicPin(s, e.arg)
              [] e.op = "victim" -> AtomicVictim(s)
              [] OTHER -> s

\* C13: every concurrent execution of victim, pin and unpin is equivalent to
\* a sequential execution of the same calls on the atomic LRU model that
\* keeps the order of calls that did not overlap: taking the calls in the
\* order of their returns, a call that returned before another was invoked
\* comes first, every victim returns what the atomic model returns at that
\* point, and every call leaves the list the atomic model has then.
C13_Linearizable ==
    /\ \A i, j \in Calls : hist[j].inv >= i => i < j
    /\ \A i \in Calls :
         LET s == AtomicAfter(i - 1)
         IN /\ Len(s) <= max_size_
            /\ \A a, b \in 1..Len(s) : a # b => s[a] # s[b]
            /\ hist[i].op = "victim" =>
                  IF s = <<>> THEN hist[i].ret = "false"
                  ELSE hist[i].ret = "true" /\ hist[i].out = s[Len(s)]
            /\ hist[i].op \in {"victim", "pin", "unpin"} =>
                  Vals(hist[i].post.list) = AtomicAfter(i)
    /\ latch_ = NoThread => Vals(LRUlist_) = AtomicAfter(Len(hist))

\* a victim call that was invoked before an unpin on the other thread took
\* effect has returned the frame of that unpin
C13_Witness ==
    \E i, j \in Calls :
       /\ i < j
       /\ hist[j].inv < i
       /\ hist[i].t # hist[j].t
       /\ hist[i].op = "unpin" /\ hist[i].post # hist[i].pre
       /\ hist[j].op = "victim" /\ hist[j].ret = "true"
       /\ hist[j].out = hist[i].arg

\* C14: an unpin(f) made while f is already evictable, or while the number
\* of evictable frames equals the capacity, returns leaving the list, in
\* content and order, and the index as they were, so a repeated unpin(f) does
\* not move f to the head; with capacity 1, after unpin(a); unpin(b) one frame
\* is evictable, Size returns 1 and victim returns a.
C14_GuardsAreNoOps ==
    /\ \A i \in Calls :
         (/\ hist[i].op = "unpin"
          /\ \/ hist[i].arg \in ListSet(hist[i].pre.list)
             \/ Len(hist[i].pre.list) = max_size_)
            => /\ hist[i].post = hist[i].pre
               /\ hist[i].ret = "void"
    /\ (/\ max_size_ = 1
        /\ Len(hist) >= 2
        /\ hist[1].op = "unpin" /\ hist[2].op = "unpin")
          => /\ Len(hist[2].post.list) = 1
             /\ Len(hist) >= 3 =>
                  /\ hist[3].op = "Size" => hist[3].n = 1
                  /\ hist[3].op = "victim" =>
                        hist[3].ret = "true" /\ hist[3].out = hist[1].arg

\* capacity 1: unpin(1); unpin(2); victim has returned 1
C14_Witness ==
    /\ max_size_ = 1
    /\ Len(hist) >= 3
    /\ hist[1].op = "unpin" /\ hist[1].arg = 1
    /\ hist[2].op = "unpin" /\ hist[2].arg = 2
    /\ hist[2].post = hist[2].pre
    /\ hist[3].op = "victim" /\ hist[3].out = 1

\* C15: for an identifier f that is not evictable, unpin(f) puts f at the
\* head of the list and records it in the index, so that Size grows by one
\* and f is the last of the evictable frames that victim hands out, exactly
\* when fewer than max_size_ frames are evictable; otherwise it changes
\* nothing. The number of evictable frames alone decides.
C15_UnpinTakesEffect ==
    \A i \in Calls :
       (hist[i].op = "unpin" /\ hist[i].arg \notin ListSet(hist[i].pre.list))
          => LET f == hist[i].arg
                 pre == hist[i].pre
                 post == hist[i].post
                 n == Len(post.list)
             IN IF Len(pre.list) < max_size_
                THEN /\ n = Len(pre.list) + 1
                     /\ post.list[1].val = f
                     /\ SubSeq(post.list, 2, n) = pre.list
                     /\ DOMAIN post.hash = (DOMAIN pre.hash) \cup {f}
                     /\ post.hash[f] = post.list[1]
                     /\ \A k \in DOMAIN pre.hash : post.hash[k] = pre.hash[k]
                     /\ (/\ i + n <= Len(hist)
                         /\ \A k \in (i + 1)..(i + n) : hist[k].op = "victim")
                          => /\ hist[i + n].ret = "true"
                             /\ hist[i + n].out = f
                ELSE post = pre

\* an unpin added a second evictable frame, and the second of the two victim
\* calls that followed returned it
C15_Witness ==
    \E i \in Calls :
       /\ hist[i].op = "unpin"
       /\ Len(hist[i].pre.list) = 1
       /\ Len(hist[i].post.list) = 2
       /\ i + 2 <= Len(hist)
       /\ hist[i + 1].op = "victim" /\ hist[i + 2].op = "victim"
       /\ hist[i + 2].out = hist[i].arg

\* C16: pin(f) on a frame that is not evictable changes nothing; pin(f) on an
\* evictable frame removes f, and no other identifier, from list and index,
\* so that Size falls by one, and keeps the other evictable frames in their
\* order: once a pin has executed the erase of line 60, f is in neither.
C16_PinEffect ==
    /\ \A i \in Calls :
         hist[i].op = "pin" =>
            LET f == hist[i].arg
                pre == hist[i].pre
                post == hist[i].post
            IN IF f \notin ListSet(pre.list)
               THEN post = pre
               ELSE /\ post.list = SelectSeq(pre.list, LAMBDA e : e.val # f)
                    /\ Len(post.list) = Len(pre.list) - 1
                    /\ DOMAIN post.hash = (DOMAIN pre.hash) \ {f}
                    /\ \A k \in DOMAIN post.hash : post.hash[k] = pre.hash[k]
    /\ \A t \in Threads :
         (op[t] = "pin" /\ pc[t] \notin {"lock", "p57", "p59", "p60"})
            => /\ arg[t] \notin ListSet(LRUlist_)
               /\ arg[t] \notin DOMAIN LRUhash_

\* C17: whenever victim has read the tail of a non-empty list (line 41), that
\* identifier is a key of the index, so the erase of line 42 does not fail;
\* hence victim returns false exactly when no frame is evictable, and a victim
\* that returns false has not written the caller's variable.
C17_DefensiveBranchDead ==
    /\ \A t \in Threads : pc[t] = "v42" => out[t] \in DOMAIN LRUhash_
    /\ \A i \in Calls :
         hist[i].op = "victim" =>
            /\ hist[i].ret = "false" <=> Len(hist[i].pre.list) = 0
            /\ hist[i].ret = "false" => hist[i].out = hist[i].out0

\* victim is at line 42 with the tail it read, while a pin of that very frame
\* waits for the latch on the other thread
C17_Witness ==
    \E t, u \in Threads :
       /\ t # u
       /\ pc[t] = "v42"
       /\ out[t] \in DOMAIN LRUhash_
       /\ pc[u] = "lock" /\ op[u] = "pin" /\ arg[u] = out[t]

\* C18: every invoked victim, pin, unpin or Size call returns, and the latch is
\* released on every path, so that no thread waits for the latch for ever:
\* every call in progress is waiting for the latch or at a line from which
\* the code goes on to its return, and whoever holds the latch is at a line
\* of its critical section from which the guard is released.
C18_EveryCallReturns ==
    /\ \A t \in Threads : pc[t] \in {"idle", "lock"} \cup AccessLabels
    /\ \A t \in Threads :
         latch_ = t => pc[t] \in AccessLabels \ {"s86", "s86n"}

\* The position in the log of the last unpin(f) before call j that changed
\* the state, 0 if there is none.
LastUnpin(f, j) ==
    LET S == {k \in 1..(j - 1) : /\ hist[k].op = "unpin"
                                 /\ hist[k].arg = f
                                 /\ hist[k].post # hist[k].pre}
    IN IF S = {} THEN 0 ELSE CHOOSE k \in S : \A m \in S : m <= k

\* The claim's example with identifiers a, b, c for 1, 2, 3: the log is
\* unpin(a), unpin(b), unpin(c), victim, pin(b), victim, victim.
ExampleCalls(a, b, c) ==
    /\ Len(hist) = 7
    /\ hist[1].op = "unpin" /\ hist[1].arg = a
    /\ hist[2].op = "unpin" /\ hist[2].arg = b
    /\ hist[3].op = "unpin" /\ hist[3].arg = c
    /\ hist[4].op = "victim"
    /\ hist[5].op = "pin" /\ hist[5].arg = b
    /\ hist[6].op = "victim"
    /\ hist[7].op = "victim"

\* C19: after any sequence of pin, unpin and victim calls, a victim that
\* succeeds returns the evictable frame whose most recent state-changing unpin
\* is the oldest among the frames evictable at that moment; and on a pool of
\* three frames or more, for distinct identifiers a, b, c, the calls unpin(a),
\* unpin(b), unpin(c), victim, pin(b), victim, victim give a, then c, then
\* "not found".
C19_OldestUnpinFirst ==
    /\ \A j \in Calls :
         (hist[j].op = "victim" /\ hist[j].ret = "true") =>
            LET f == hist[j].out
                E == ListSet(hist[j].pre.list)
            IN /\ f \in E
               /\ \A g \in E : LastUnpin(g, j) >= 1
               /\ \A g \in E : LastUnpin(f, j) <= LastUnpin(g, j)
    /\ (max_size_ >= 3 /\ Len(hist) = 7) =>
         \A a, b, c \in Frames :
            (a # b /\ a # c /\ b # c /\ ExampleCalls(a, b, c))
               => /\ hist[4].ret = "true" /\ hist[4].out = a
                  /\ hist[6].ret = "true" /\ hist[6].out = c
                  /\ hist[7].ret = "false"

\* unpin(a); unpin(b); unpin(c); pin(a); unpin(a); victim; victim: the pin and
\* the second unpin of a changed the state, the first victim chose among three
\* evictable frames and returned b, not a, and the second returned c
C19_Witness ==
    /\ Len(hist) = 7
    /\ hist[1].op = "unpin" /\ hist[2].op = "unpin" /\ hist[3].op = "unpin"
    /\ Cardinality({hist[1].arg, hist[2].arg, hist[3].arg}) = 3
    /\ hist[4].op = "pin" /\ hist[4].arg = hist[1].arg
    /\ hist[4].post # hist[4].pre
    /\ hist[5].op = "unpin" /\ hist[5].arg = hist[1].arg
    /\ hist[5].post # hist[5].pre
    /\ hist[6].op = "victim" /\ hist[6].ret = "true"
    /\ Len(hist[6].pre.list) = 3
    /\ hist[6].out = hist[2].arg
    /\ hist[7].op = "victim" /\ hist[7].ret = "true"
    /\ hist[7].out = hist[3].arg

\* the claim's example has been run to its end, with the results it states
C19_Example ==
    \E a, b, c \in Frames :
       /\ max_size_ >= 3 /\ a # b /\ a # c /\ b # c
       /\ ExampleCalls(a, b, c)
       /\ hist[4].ret = "true" /\ hist[4].out = a
       /\ hist[5].post # hist[5].pre
       /\ hist[6].ret = "true" /\ hist[6].out = c
       /\ hist[7].ret = "false"

====
